---- MODULE Spec2Model ----
(***************************************************************************)
(* Model of the two notebooks held in                                      *)
(* src/qiskit/basics/getting_started_with_qiskit.ipynb:                    *)
(*   - "Getting Started with Qiskit" (lines 1-754): build the GHZ circuit, *)
(*     run it on the local simulators, on the least busy real device and   *)
(*     on the remote simulator, and retrieve a job by its id;              *)
(*   - "Qiskit Aqua: build a pluggable algorithm" (lines 756-956):         *)
(*     register EvolutionFidelity and run it directly and declaratively.   *)
(* A behaviour is one kernel session running one of the notebooks, cell    *)
(* after cell.  Calls into the SDK are modelled by what the notebook       *)
(* states about them; the jobs submitted by execute progress on their own, *)
(* concurrently with the cells.                                            *)
(***************************************************************************)
EXTENDS Integers, Naturals, Sequences, FiniteSets, TLC

\* ---------------------------------------------------------------- bounds
\* shots passed to execute are drawn from 1..MaxShots (the notebook uses 1024)
MaxShots == 2
\* pending_jobs of a remote backend is drawn from 0..MaxPending
MaxPending == 1
\* the random operator of the Aqua notebook is one of 1..MaxOps
MaxOps == 2

\* ------------------------------------------------------- program constants
\* q = QuantumRegister(3, 'q')
NumQubits == 3
\* filters=lambda x: x.configuration().n_qubits > 4 and not simulator
FilterQubits == 4
\* "which can support our program (has at least 3 qubits)"
NeededQubits == 3
\* ibmq_qasm_simulator "is capable of simulating up to 32 qubits"
SimQubits == 32
\* max_credits = 3
MaxCredits == 3
\* algo = EvolutionFidelity(qubit_op, initial_state, expansion_order=1)
DirectOrder == 1
\* 'expansion_order': 1
ParamsOrder == 1

Qubits == 0 .. (NumQubits - 1)
Dim == 2 ^ NumQubits
Basis == 0 .. (Dim - 1)

\* ------------------------------------------------------------ qubit order
\* value of qubit j in the basis state of index i: qubit 0 is the least
\* significant bit of the index
Bit(i, j) == (i \div (2 ^ j)) % 2

\* the index i with the value of qubit j flipped
Flip(i, j) == IF Bit(i, j) = 0 THEN i + 2 ^ j ELSE i - 2 ^ j

\* index of the basis state in which qubit j has value b[j]
IndexOf(b) ==
  LET RECURSIVE Sum(_)
      Sum(j) == IF j = NumQubits THEN 0 ELSE b[j] * 2 ^ j + Sum(j + 1)
  IN Sum(0)

\* LabelLsbFirst: the textbook order, leftmost position is bit 0
LabelLsbFirst(b) == [k \in 1 .. NumQubits |-> b[k - 1]]

\* the label (bitstring) of a register whose bit j has value b[j]: the most
\* significant bit (bit n-1) on the left, bit 0 on the right
Label(b) == [k \in 1 .. NumQubits |-> b[NumQubits - k]]

\* label of the basis state of index i
BasisLabel(i) == Label([j \in Qubits |-> Bit(i, j)])

\* ------------------------------------------------------------------ gates
HGate(j) == [name |-> "h", q |-> <<j>>, c |-> <<>>]
CXGate(ctl, tgt) == [name |-> "cx", q |-> <<ctl, tgt>>, c |-> <<>>]
Barrier == [name |-> "barrier", q |-> <<0, 1, 2>>, c |-> <<>>]
Measure == [name |-> "measure", q |-> <<0, 1, 2>>, c |-> <<0, 1, 2>>]

\* amplitudes are integers; the amplitude of index i is a[i] / sqrt(2)^h
\* where h is the number of Hadamard gates applied
ApplyH(a, j) ==
  [i \in Basis |-> IF Bit(i, j) = 0 THEN a[i] + a[Flip(i, j)]
                                    ELSE a[Flip(i, j)] - a[i]]

\* ApplyCXNoControl: the target is flipped whatever the control
ApplyCXNoControl(a, ctl, tgt) == [i \in Basis |-> a[Flip(i, tgt)]]

\* CX: the target is flipped in the basis states whose control qubit is 1
ApplyCX(a, ctl, tgt) ==
  [i \in Basis |-> IF Bit(i, ctl) = 1 THEN a[Flip(i, tgt)] ELSE a[i]]

ApplyGate(a, g) ==
  CASE g.name = "h"  -> ApplyH(a, g.q[1])
    [] g.name = "cx" -> ApplyCX(a, g.q[1], g.q[2])
    [] OTHER         -> a

RECURSIVE ApplyCircuit(_, _)
ApplyCircuit(a, gates) ==
  IF gates = <<>> THEN a
  ELSE ApplyCircuit(ApplyGate(a, Head(gates)), Tail(gates))

\* "By default, each qubit in the register is initialized to |0>"
BasisState(k) == [i \in Basis |-> IF i = k THEN 1 ELSE 0]
ZeroState == BasisState(0)

HCount(gates) == Cardinality({k \in DOMAIN gates : gates[k].name = "h"})

\* the state the gates of a circuit produce from |000>
Statevector(gates) ==
  [amp |-> ApplyCircuit(ZeroState, gates), hpow |-> HCount(gates)]

\* the matrix of the circuit, column by column
Unitary(gates) ==
  [amp |-> [col \in Basis |-> ApplyCircuit(BasisState(col), gates)],
   hpow |-> HCount(gates)]

HasMeasure(gates) == \E k \in DOMAIN gates : gates[k].name = "measure"

\* the classical register after one run in which the qubits collapsed to the
\* basis state of index i: measure(q, c) copies qubit q[k] to bit c[k]
ClassicalBits(gates, i) ==
  LET ms == {k \in DOMAIN gates : gates[k].name = "measure"}
  IN [cb \in Qubits |->
        IF \E k \in ms : \E p \in DOMAIN gates[k].c : gates[k].c[p] = cb
        THEN LET k == CHOOSE k \in ms : \E p \in DOMAIN gates[k].c : gates[k].c[p] = cb
                 p == CHOOSE p \in DOMAIN gates[k].c : gates[k].c[p] = cb
             IN Bit(i, gates[k].q[p])
        ELSE 0]

\* indices an ideal simulator can sample: those of non-zero amplitude
IdealOutcomes(gates) ==
  {i \in Basis : ApplyCircuit(ZeroState, gates)[i] # 0}

\* a noisy device can produce every bitstring
NoisyOutcomes(gates) == Basis

\* ------------------------------------------------------------------ state
VARIABLES
  pc,        \* the cell (statement) the kernel runs next
  failedAt,  \* the cell whose exception stopped the run, "" if none
  ns,        \* the names the cells have bound: name -> value
  jobs,      \* the jobs submitted so far, by job id (1, 2, ...)
  lastShot,  \* the latest run of a measured circuit: qubit values and bitstring
  devices,   \* the IBMQ backends of the loaded account: name -> configuration/status
  nshots,    \* the value of the shots keyword (1024 in the notebook)
  registry,  \* Aqua's registered pluggable algorithm classes
  stdout     \* what the Aqua notebook printed

vars == <<pc, failedAt, ns, jobs, lastShot, devices, nshots, registry, stdout>>

NoShot == [job |-> 0, qubits |-> <<>>, key |-> <<>>]

LocalBackends == {"statevector_simulator", "unitary_simulator", "qasm_simulator"}
RealDevices == {"devA", "devB"}
RemoteSimulator == "ibmq_qasm_simulator"
RemoteBackends == RealDevices \cup {RemoteSimulator}

QubitChoices == {FilterQubits, FilterQubits + 1}

\* what IBMQ.backends() can report for the account
DeviceConfigs ==
  LET RealCfgs == [n_qubits : QubitChoices, simulator : {FALSE},
                   pending_jobs : 0 .. MaxPending]
  IN {[d \in RemoteBackends |->
         IF d = RemoteSimulator
         THEN [n_qubits |-> SimQubits, simulator |-> TRUE, pending_jobs |-> 0]
         ELSE f[d]] : f \in [RealDevices -> RealCfgs]}

\* ------------------------------------------------------------------- jobs
FinalStates == {"DONE"}

\* backends that repeat the circuit shots times and aggregate the outcomes
Sampling(be) == be \in {"qasm_simulator"} \cup RemoteBackends

RECURSIVE SumOver(_, _)
SumOver(f, S) ==
  IF S = {} THEN 0
  ELSE LET x == CHOOSE x \in S : TRUE IN f[x] + SumOver(f, S \ {x})

\* number of runs aggregated in a counts dictionary
Total(counts) == SumOver(counts, DOMAIN counts)

AddCount(counts, key) ==
  IF key \in DOMAIN counts THEN [counts EXCEPT ![key] = @ + 1]
  ELSE (key :> 1) @@ counts

\* the id the n-th submitted job is known by (job.job_id())
JobId(n) == [serial |-> n]

\* the job object execute returns as the n-th job: submitted, not yet run
NewJob(n, gates, be, sh) ==
  [id |-> JobId(n), backend |-> be, gates |-> gates, shots |-> sh,
   status |-> "QUEUED", counts |-> <<>>]

\* outcomes one run of the job's circuit can have on the job's backend
Outcomes(job) ==
  IF job.backend \in RealDevices THEN NoisyOutcomes(job.gates)
  ELSE IdealOutcomes(job.gates)

\* ShotsLeftOffByOne: the backend stops one repetition early
ShotsLeftOffByOne(job) == Total(job.counts) + 1 < job.shots

\* repetitions the backend still has to run
ShotsLeft(job) == Total(job.counts) < job.shots

\* the backend starts a queued job
JobStart ==
  \E j \in DOMAIN jobs :
    /\ jobs[j].status = "QUEUED"
    /\ jobs' = [jobs EXCEPT ![j].status = "RUNNING"]
    /\ UNCHANGED <<pc, failedAt, ns, lastShot, devices, nshots, registry, stdout>>

\* one repetition (shot) of a measured circuit
JobShot ==
  \E j \in DOMAIN jobs :
    /\ jobs[j].status = "RUNNING"
    /\ Sampling(jobs[j].backend)
    /\ HasMeasure(jobs[j].gates)
    /\ ShotsLeft(jobs[j])
    /\ \E i \in Outcomes(jobs[j]) :
         LET key == Label(ClassicalBits(jobs[j].gates, i))
         IN /\ jobs' = [jobs EXCEPT ![j].counts = AddCount(@, key)]
            /\ lastShot' = [job |-> j, qubits |-> [q \in Qubits |-> Bit(i, q)],
                            key |-> key]
    /\ UNCHANGED <<pc, failedAt, ns, devices, nshots, registry, stdout>>

\* the backend completes a running job
JobFinish ==
  \E j \in DOMAIN jobs :
    /\ jobs[j].status = "RUNNING"
    /\ (Sampling(jobs[j].backend) /\ HasMeasure(jobs[j].gates))
          => ~ShotsLeft(jobs[j])
    /\ jobs' = [jobs EXCEPT ![j].status = "DONE"]
    /\ UNCHANGED <<pc, failedAt, ns, lastShot, devices, nshots, registry, stdout>>

\* what the result of a finished job holds, by backend
JobData(job) ==
  CASE job.backend = "statevector_simulator" ->
         [statevector |-> Statevector(job.gates)]
    [] job.backend = "unitary_simulator" ->
         [unitary |-> Unitary(job.gates)]
    [] OTHER -> [counts |-> job.counts]

ResultOf(j) == [job_id |-> j, backend |-> jobs[j].backend, data |-> JobData(jobs[j])]

\* ResultNoWait: result() hands out whatever the job holds at the call
ResultNoWait(job) == TRUE

\* job.result() and job_monitor(job) wait for this before they return
ResultReady(job) == job.status \in FinalStates

\* ------------------------------------------------- the kernel running cells
Bound(names) == names \subseteq DOMAIN ns

Bind(f, name, val) == (name :> val) @@ f

\* an uncaught exception stops the run at cell l
Raise(l) ==
  /\ pc' = "failed"
  /\ failedAt' = l
  /\ UNCHANGED <<ns, jobs, lastShot, devices, nshots, registry, stdout>>

\* an uncaught exception stops the run in the middle of cell l: the names the
\* cell's earlier statements bound stay bound (f is the namespace so far)
RaiseAfter(l, f) ==
  /\ pc' = "failed"
  /\ failedAt' = l
  /\ ns' = f
  /\ UNCHANGED <<jobs, lastShot, devices, nshots, registry, stdout>>

\* ------------------------------------- notebook "Getting Started with Qiskit"
\* q = QuantumRegister(3, 'q'); circ = QuantumCircuit(q)
CreateCircuit ==
  /\ pc = "c74"
  /\ ns' = Bind(Bind(ns, "q", NumQubits), "circ", <<>>)
  /\ pc' = "c115"
  /\ UNCHANGED <<failedAt, jobs, lastShot, devices, nshots, registry, stdout>>

\* a gate method appends its operation to the circuit bound to name
AddGate(l, next, name, g) ==
  /\ pc = l
  /\ IF Bound({name, "q"})
     THEN /\ ns' = [ns EXCEPT ![name] = Append(@, g)]
          /\ pc' = next
          /\ UNCHANGED <<failedAt, jobs, lastShot, devices, nshots, registry, stdout>>
     ELSE Raise(l)

\* CxSwapped: control and target exchanged in the last gate
CxSwapped == CXGate(2, 0)

\* circ.cx(q[0], q[2])
Cx02 == CXGate(0, 2)

\* circ.h(q[0])
AddH == AddGate("c115", "c118", "circ", HGate(0))
\* circ.cx(q[0], q[1])
AddCx01 == AddGate("c118", "c121", "circ", CXGate(0, 1))
\* circ.cx(q[0], q[2])
AddCx02 == AddGate("c121", "c200", "circ", Cx02)

\* name = <provider>.get_backend(be)
GetBackend(l, next, name, be) ==
  /\ pc = l
  /\ ns' = Bind(ns, name, be)
  /\ pc' = next
  /\ UNCHANGED <<failedAt, jobs, lastShot, devices, nshots, registry, stdout>>

\* jobname = execute(<circname>, <bename>, shots=sh): submits the job and
\* returns its handle at once
Execute(l, next, jobname, circname, bename, sh) ==
  /\ pc = l
  /\ IF Bound({circname, bename})
     THEN /\ jobs' = Append(jobs, NewJob(Len(jobs) + 1, ns[circname], ns[bename], sh))
          /\ ns' = Bind(ns, jobname, Len(jobs) + 1)
          /\ pc' = next
          /\ UNCHANGED <<failedAt, lastShot, devices, nshots, registry, stdout>>
     ELSE Raise(l)

\* resname = <jobname>.result(): returns once the job has finished
GetResult(l, next, resname, jobname) ==
  /\ pc = l
  /\ IF Bound({jobname})
     THEN /\ ResultReady(jobs[ns[jobname]])
          /\ ns' = Bind(ns, resname, ResultOf(ns[jobname]))
          /\ pc' = next
          /\ UNCHANGED <<failedAt, jobs, lastShot, devices, nshots, registry, stdout>>
     ELSE Raise(l)

\* name = <resname>.get_<field>(<circname>): raises if the result holds no such data
Accessor(l, next, name, resname, circname, field) ==
  /\ pc = l
  /\ IF Bound({resname, circname}) /\ field \in DOMAIN ns[resname].data
     THEN /\ ns' = Bind(ns, name, ns[resname].data[field])
          /\ pc' = next
          /\ UNCHANGED <<failedAt, jobs, lastShot, devices, nshots, registry, stdout>>
     ELSE Raise(l)

\* backend = BasicAer.get_backend('statevector_simulator')
BackendStatevector == GetBackend("c200", "c222", "backend", "statevector_simulator")
\* job = execute(circ, backend)
ExecuteStatevector == Execute("c222", "c243", "job", "circ", "backend", nshots)
\* result = job.result()
ResultStatevector == GetResult("c243", "c260", "result", "job")
\* outputstate = result.get_statevector(circ, decimals=3)
GetStatevector == Accessor("c260", "c304", "outputstate", "result", "circ", "statevector")

\* backend = BasicAer.get_backend('unitary_simulator')
BackendUnitary == GetBackend("c304", "c305", "backend", "unitary_simulator")
\* job = execute(circ, backend)
ExecuteUnitary == Execute("c305", "c306", "job", "circ", "backend", nshots)
\* result = job.result()
ResultUnitary == GetResult("c306", "c309", "result", "job")
\* print(result.get_unitary(circ, decimals=3))
GetUnitary ==
  /\ pc = "c309"
  /\ IF Bound({"result", "circ"}) /\ "unitary" \in DOMAIN ns["result"].data
     THEN /\ pc' = "c346"
          /\ UNCHANGED <<failedAt, ns, jobs, lastShot, devices, nshots,
                         registry, stdout>>
     ELSE Raise("c309")

\* c = ClassicalRegister(3, 'c'); meas = QuantumCircuit(q, c);
\* meas.barrier(q); meas.measure(q, c); qc = circ + meas
AddMeasurement ==
  /\ pc = "c346"
  /\ IF Bound({"q", "circ"})
     THEN /\ ns' = Bind(Bind(Bind(ns, "c", NumQubits),
                             "meas", <<Barrier, Measure>>),
                        "qc", ns["circ"] \o <<Barrier, Measure>>)
          /\ pc' = "c383"
          /\ UNCHANGED <<failedAt, jobs, lastShot, devices, nshots, registry, stdout>>
     ELSE IF Bound({"q"})
          THEN \* qc = circ + meas fails: c and meas are already bound
               RaiseAfter("c346", Bind(Bind(ns, "c", NumQubits),
                                       "meas", <<Barrier, Measure>>))
          ELSE \* meas = QuantumCircuit(q, c) fails: only c is bound
               RaiseAfter("c346", Bind(ns, "c", NumQubits))

\* backend_sim = BasicAer.get_backend('qasm_simulator')
BackendQasm == GetBackend("c383", "c388", "backend_sim", "qasm_simulator")
\* job_sim = execute(qc, backend_sim, shots=1024)
ExecuteQasm == Execute("c388", "c391", "job_sim", "qc", "backend_sim", nshots)
\* result_sim = job_sim.result()
ResultQasm == GetResult("c391", "c412", "result_sim", "job_sim")
\* counts = result_sim.get_counts(qc)
GetCounts == Accessor("c412", "c486", "counts", "result_sim", "qc", "counts")

\* IBMQ.load_accounts(); IBMQ.backends()
LoadAccounts ==
  /\ pc = "c486"
  /\ devices' \in DeviceConfigs
  /\ pc' = "c535"
  /\ UNCHANGED <<failedAt, ns, jobs, lastShot, nshots, registry, stdout>>

\* lambda x: x.configuration().n_qubits > 4 and not x.configuration().simulator
LargeEnough(cfg) == cfg.n_qubits > FilterQubits /\ ~cfg.simulator

\* least_busy(backends): the backends with the fewest pending jobs
LeastBusy(S) ==
  {d \in S : \A e \in S : devices[d].pending_jobs <= devices[e].pending_jobs}

\* large_enough_devices = IBMQ.backends(filters=...);
\* backend = least_busy(large_enough_devices)
SelectLeastBusy ==
  /\ pc = "c535"
  /\ LET large == {d \in DOMAIN devices : LargeEnough(devices[d])}
     IN IF large = {}
        THEN \* the filtered list is bound before least_busy raises on it
             RaiseAfter("c535", Bind(ns, "large_enough_devices", large))
        ELSE /\ \E d \in LeastBusy(large) :
                  ns' = Bind(Bind(ns, "large_enough_devices", large), "backend", d)
             /\ pc' = "c561"
             /\ UNCHANGED <<failedAt, jobs, lastShot, devices, nshots, registry, stdout>>

\* shots = 1024; max_credits = 3;
\* job_exp = execute(qc, backend=backend, shots=shots, max_credits=max_credits)
ExecuteDevice ==
  /\ pc = "c561"
  /\ IF Bound({"qc", "backend"})
     THEN /\ jobs' = Append(jobs, NewJob(Len(jobs) + 1, ns["qc"], ns["backend"], nshots))
          /\ ns' = Bind(Bind(Bind(ns, "shots", nshots), "max_credits", MaxCredits),
                        "job_exp", Len(jobs) + 1)
          /\ pc' = "c565"
          /\ UNCHANGED <<failedAt, lastShot, devices, nshots, registry, stdout>>
     ELSE RaiseAfter("c561", Bind(Bind(ns, "shots", nshots),
                                  "max_credits", MaxCredits))

\* job_monitor(job_exp): polls the job until it has finished
JobMonitor ==
  /\ pc = "c565"
  /\ IF Bound({"job_exp"})
     THEN /\ ResultReady(jobs[ns["job_exp"]])
          /\ pc' = "c590"
          /\ UNCHANGED <<failedAt, ns, jobs, lastShot, devices, nshots, registry, stdout>>
     ELSE Raise("c565")

\* result_exp = job_exp.result()
ResultDevice == GetResult("c590", "c611", "result_exp", "job_exp")
\* counts_exp = result_exp.get_counts(qc)
\* plot_histogram([counts_exp,counts])
GetCountsDevice ==
  /\ pc = "c611"
  /\ IF Bound({"result_exp", "qc"}) /\ "counts" \in DOMAIN ns["result_exp"].data
     THEN IF Bound({"counts"})
          THEN /\ ns' = Bind(ns, "counts_exp", ns["result_exp"].data["counts"])
               /\ pc' = "c631"
               /\ UNCHANGED <<failedAt, jobs, lastShot, devices, nshots,
                              registry, stdout>>
          ELSE \* the histogram reads counts after counts_exp is bound
               RaiseAfter("c611",
                          Bind(ns, "counts_exp", ns["result_exp"].data["counts"]))
     ELSE Raise("c611")

\* simulator_backend = IBMQ.get_backend('ibmq_qasm_simulator', hub=None)
BackendHpc == GetBackend("c631", "c640", "simulator_backend", RemoteSimulator)
\* job_hpc = execute(qc, backend=simulator_backend, shots=shots, max_credits=max_credits)
ExecuteHpc ==
  /\ pc = "c640"
  /\ IF Bound({"qc", "simulator_backend"})
     THEN /\ jobs' = Append(jobs, NewJob(Len(jobs) + 1, ns["qc"], ns["simulator_backend"], nshots))
          /\ ns' = Bind(Bind(Bind(ns, "shots", nshots), "max_credits", MaxCredits),
                        "job_hpc", Len(jobs) + 1)
          /\ pc' = "c652"
          /\ UNCHANGED <<failedAt, lastShot, devices, nshots, registry, stdout>>
     ELSE RaiseAfter("c640", Bind(Bind(ns, "shots", nshots),
                                  "max_credits", MaxCredits))
\* result_hpc = job_hpc.result()
ResultHpc == GetResult("c652", "c661", "result_hpc", "job_hpc")
\* counts_hpc = result_hpc.get_counts(qc)
GetCountsHpc == Accessor("c661", "c687", "counts_hpc", "result_hpc", "qc", "counts")

\* the job whose id the notebook notes: jobID = job_exp.job_id()
NotedJob == "job_exp"

\* jobID = job_exp.job_id()
NoteJobId ==
  /\ pc = "c687"
  /\ IF Bound({NotedJob})
     THEN /\ ns' = Bind(ns, "jobID", jobs[ns[NotedJob]].id)
          /\ pc' = "c705"
          /\ UNCHANGED <<failedAt, jobs, lastShot, devices, nshots, registry, stdout>>
     ELSE Raise("c687")

\* the jobs of backend be that the service holds under the given id
Retrievable(be, id) ==
  {j \in DOMAIN jobs : jobs[j].id = id /\ jobs[j].backend = be}

\* job_get = backend.retrieve_job(jobID): a job object for the job the
\* backend holds under that id; raises if it holds none
RetrieveJob ==
  /\ pc = "c705"
  /\ IF Bound({"backend", "jobID"}) /\ ns["backend"] \in RemoteBackends
        /\ Retrievable(ns["backend"], ns["jobID"]) # {}
     THEN /\ ns' = Bind(ns, "job_get",
                        CHOOSE j \in Retrievable(ns["backend"], ns["jobID"]) : TRUE)
          /\ pc' = "c721"
          /\ UNCHANGED <<failedAt, jobs, lastShot, devices, nshots, registry, stdout>>
     ELSE Raise("c705")

\* job_get.result().get_counts(qc): result() waits for the job first, then
\* get_counts reads qc and the counts
RetrievedCounts ==
  /\ pc = "c721"
  /\ IF Bound({"job_get"})
     THEN /\ ResultReady(jobs[ns["job_get"]])
          /\ IF Bound({"qc"}) /\ "counts" \in DOMAIN ResultOf(ns["job_get"]).data
             THEN /\ pc' = "done"
                  /\ UNCHANGED <<failedAt, ns, jobs, lastShot, devices, nshots,
                                 registry, stdout>>
             ELSE Raise("c721")
     ELSE Raise("c721")

\* -------------------------------------------- notebook "Qiskit Aqua" (756-956)
EvolutionFidelity == "EvolutionFidelity"
\* the algorithms Aqua registers itself
Builtin == <<"VQE">>
AlreadyRegistered ==
  "Could not register class EvolutionFidelity is already registered"

Registered(reg, cls) == \E k \in DOMAIN reg : reg[k] = cls

\* RegisterTwice: the class is added whether or not it is registered
RegisterTwice(reg, cls) == [ok |-> TRUE, reg |-> Append(reg, cls)]

\* register_pluggable(cls): raises if cls is already registered
RegisterPluggable(reg, cls) ==
  IF Registered(reg, cls) THEN [ok |-> FALSE, reg |-> reg]
  ELSE [ok |-> TRUE, reg |-> Append(reg, cls)]

\* Uncaught: the exception leaves the cell
Uncaught(l, next, e) == Raise(l)

\* except Exception as e: print(e)
CatchAndPrint(l, next, e) ==
  /\ stdout' = Append(stdout, [cell |-> l, out |-> e])
  /\ ns' = Bind(Bind(ns, "register_pluggable", "function"),
                "EvolutionFidelity", EvolutionFidelity)
  /\ pc' = next
  /\ UNCHANGED <<failedAt, jobs, lastShot, devices, nshots, registry>>

\* from qiskit_aqua import register_pluggable; from evolutionfidelity... import
\* EvolutionFidelity; try: register_pluggable(EvolutionFidelity) except ...
RegisterCell ==
  /\ pc = "a825"
  /\ LET r == RegisterPluggable(registry, EvolutionFidelity)
     IN IF r.ok
        THEN /\ registry' = r.reg
             /\ ns' = Bind(Bind(ns, "register_pluggable", "function"),
                           "EvolutionFidelity", EvolutionFidelity)
             /\ pc' = "a866"
             /\ UNCHANGED <<failedAt, jobs, lastShot, devices, nshots, stdout>>
        ELSE CatchAndPrint("a825", "a866", AlreadyRegistered)

\* the registration cell is left out ("Without registration, you can still
\* use the designed algorithm/components as is")
SkipRegisterCell ==
  /\ pc = "a825"
  /\ pc' = "a866"
  /\ UNCHANGED <<failedAt, ns, jobs, lastShot, devices, nshots, registry, stdout>>

\* result['score'] as the notebook prints it; its value is computed by
\* EvolutionFidelity and is not modelled
ScorePrinted == "result['score']"

\* qubit_op = Operator(matrix=temp + temp.T); initial_state = Zero(...);
\* algo = EvolutionFidelity(qubit_op, initial_state, expansion_order=1);
\* backend = Aer.get_backend('statevector_simulator');
\* result = algo.run(quantum_instance)
RunDirect ==
  /\ pc = "a866"
  /\ \E op \in 1 .. MaxOps :
       LET algo == [cls |-> EvolutionFidelity, operator |-> op,
                    initial_state |-> "Zero", expansion_order |-> DirectOrder]
       IN /\ ns' = Bind(Bind(Bind(Bind(Bind(Bind(Bind(ns,
                     "EvolutionFidelity", EvolutionFidelity),
                     "qubit_op", op),
                     "initial_state", "Zero"),
                     "algo", algo),
                     "backend", "statevector_simulator"),
                     "quantum_instance", "statevector_simulator"),
                     "result", [score |-> ScorePrinted])
          /\ stdout' = Append(stdout, [cell |-> "a866", out |-> ScorePrinted])
  /\ pc' = "a898"
  /\ UNCHANGED <<failedAt, jobs, lastShot, devices, nshots, registry>>

\* params = {...}
Params ==
  [problem |-> [name |-> "eoh"],
   algorithm |-> [name |-> EvolutionFidelity, expansion_order |-> ParamsOrder],
   initial_state |-> [name |-> "ZERO"]]

\* params = {...}; algo_input = EnergyInput(qubit_op)
SetParams ==
  /\ pc = "a898"
  /\ IF Bound({"qubit_op"})
     THEN /\ ns' = Bind(Bind(ns, "params", Params), "algo_input", ns["qubit_op"])
          /\ pc' = "a931"
          /\ UNCHANGED <<failedAt, jobs, lastShot, devices, nshots, registry, stdout>>
     ELSE RaiseAfter("a898", Bind(ns, "params", Params))

\* LookupAlways: the name is found whether or not it was registered
LookupAlways(reg, name) == TRUE

\* run_algorithm finds the algorithm class by its name in the registry
Lookup(reg, name) == Registered(reg, name)

\* result = run_algorithm(params, algo_input, backend=backend)
RunDeclarative ==
  /\ pc = "a931"
  /\ IF Bound({"params", "algo_input", "backend"})
        /\ Lookup(registry, ns["params"].algorithm.name)
     THEN /\ ns' = Bind(ns, "result", [score |-> ScorePrinted])
          /\ stdout' = Append(stdout, [cell |-> "a931", out |-> ScorePrinted])
          /\ pc' = "done"
          /\ UNCHANGED <<failedAt, jobs, lastShot, devices, nshots, registry>>
     ELSE Raise("a931")

\* ------------------------------------------------------------ specification
Init ==
  /\ failedAt = ""
  /\ ns = <<>>
  /\ jobs = <<>>
  /\ lastShot = NoShot
  /\ devices = <<>>
  /\ stdout = <<>>
  /\ \/ /\ pc = "c74"
        /\ nshots \in 1 .. MaxShots
        /\ registry = Builtin
     \/ /\ pc = "a825"
        /\ nshots = 1
        /\ registry \in {Builtin, Append(Builtin, EvolutionFidelity)}

Next ==
  \/ JobStart \/ JobShot \/ JobFinish
  \/ CreateCircuit \/ AddH \/ AddCx01 \/ AddCx02
  \/ BackendStatevector \/ ExecuteStatevector \/ ResultStatevector \/ GetStatevector
  \/ BackendUnitary \/ ExecuteUnitary \/ ResultUnitary \/ GetUnitary
  \/ AddMeasurement
  \/ BackendQasm \/ ExecuteQasm \/ ResultQasm \/ GetCounts
  \/ LoadAccounts \/ SelectLeastBusy
  \/ ExecuteDevice \/ JobMonitor \/ ResultDevice \/ GetCountsDevice
  \/ BackendHpc \/ ExecuteHpc \/ ResultHpc \/ GetCountsHpc
  \/ NoteJobId \/ RetrieveJob \/ RetrievedCounts
  \/ RegisterCell \/ SkipRegisterCell \/ RunDirect \/ SetParams \/ RunDeclarative

Spec == Init /\ [][Next]_vars

\* ------------------------------------------------------------------ claims
L000 == <<0, 0, 0>>
L111 == <<1, 1, 1>>
L011 == <<0, 1, 1>>
L100 == <<1, 0, 0>>

\* labels of the basis states of non-zero amplitude
Support(amp) == {BasisLabel(i) : i \in {k \in Basis : amp[k] # 0}}

\* the result objects of the first notebook and the jobs they came from
JobResults(f) == {n \in DOMAIN f : n \in {"result", "result_sim", "result_exp", "result_hpc"}
                                   /\ "job_id" \in DOMAIN f[n]}

\* the job each blocking call waits for
WaitsFor ==
  [c243 |-> "job", c306 |-> "job", c391 |-> "job_sim", c565 |-> "job_exp",
   c590 |-> "job_exp", c652 |-> "job_hpc", c721 |-> "job_get"]

\* C1: execute returns the job while it is still queued and the kernel moves
\* on; a result object is only ever obtained from a finished job; and while a
\* result() or job_monitor call waits for an unfinished job, no cell runs
C1_ResultWaitsForJob ==
  [][ /\ \A j \in DOMAIN jobs' \ DOMAIN jobs :
            jobs'[j].status = "QUEUED" /\ pc' # pc
      /\ \A n \in JobResults(ns') :
            jobs'[ns'[n].job_id].status \in FinalStates
      /\ (pc \in DOMAIN WaitsFor /\ WaitsFor[pc] \in DOMAIN ns
             /\ jobs[ns[WaitsFor[pc]]].status \notin FinalStates)
           => (pc' = pc /\ ns' = ns) ]_vars

\* results were obtained from a local, a real-device and a remote-simulator job
C1_Witness ==
  /\ {"result", "result_sim", "result_exp", "result_hpc"} \subseteq DOMAIN ns
  /\ ns["result_exp"].backend \in RealDevices
  /\ ns["result_hpc"].backend = RemoteSimulator

\* C2: H on qubit 0, CX 0->1, CX 0->2 applied to |000> give the GHZ state:
\* only 000 and 111 have non-zero amplitude and the two amplitudes are equal;
\* after the first two gates qubits 0 and 1 are in the Bell state, qubit 2 is 0;
\* the statevector the simulator returns is that state
C2_GhzState ==
  /\ ("circ" \in DOMAIN ns /\ Len(ns["circ"]) = 2)
       => LET sv == Statevector(ns["circ"])
          IN /\ Support(sv.amp) = {L000, L011}
             /\ sv.amp[0] = sv.amp[3]
  /\ ("circ" \in DOMAIN ns /\ Len(ns["circ"]) = 3)
       => LET sv == Statevector(ns["circ"])
          IN /\ Support(sv.amp) = {L000, L111}
             /\ sv.amp[0] = sv.amp[Dim - 1]
             /\ sv.hpow = 1
  /\ "outputstate" \in DOMAIN ns
       => /\ Support(ns["outputstate"].amp) = {L000, L111}
          /\ ns["outputstate"].amp[0] = ns["outputstate"].amp[Dim - 1]

C2_Witness ==
  /\ "outputstate" \in DOMAIN ns
  /\ ns["circ"] = <<HGate(0), CXGate(0, 1), CXGate(0, 2)>>

\* C3: every run of qc on the ideal qasm simulator yields 000 or 111, so the
\* keys of get_counts(qc) are among 000 and 111
C3_OnlyGhzOutcomes ==
  /\ \A j \in DOMAIN jobs :
        jobs[j].backend = "qasm_simulator"
          => DOMAIN jobs[j].counts \subseteq {L000, L111}
  /\ (lastShot.job # 0 /\ jobs[lastShot.job].backend = "qasm_simulator")
        => lastShot.key \in {L000, L111}
  /\ "counts" \in DOMAIN ns => DOMAIN ns["counts"] \subseteq {L000, L111}

C3_Witness ==
  /\ "counts" \in DOMAIN ns
  /\ DOMAIN ns["counts"] = {L000, L111}

\* C4: once a job that repeats a measured circuit has finished, its counts
\* sum to the number of shots passed to execute, and so do the dictionaries
\* get_counts returns
C4_CountsSumToShots ==
  /\ \A j \in DOMAIN jobs :
        (Sampling(jobs[j].backend) /\ jobs[j].status \in FinalStates)
          => Total(jobs[j].counts) = jobs[j].shots
  /\ \A n \in {"counts", "counts_exp", "counts_hpc"} \cap DOMAIN ns :
        Total(ns[n]) = nshots

C4_Witness ==
  /\ {"counts", "counts_exp", "counts_hpc"} \subseteq DOMAIN ns
  /\ nshots > 1
  /\ Cardinality(DOMAIN ns["counts_exp"]) > 1

\* the devices that can support the program: real, with at least 3 qubits
Supporting == {d \in DOMAIN devices :
                 devices[d].n_qubits >= NeededQubits /\ ~devices[d].simulator}

\* C5: the backend chosen for the real-device run is a real device with at
\* least 3 qubits and no other real device with at least 3 qubits has a
\* shorter queue (and one is chosen whenever such a device exists)
C5_LeastBusySupporting ==
  /\ failedAt = "c535" => Supporting = {}
  /\ ("large_enough_devices" \in DOMAIN ns /\ failedAt # "c535")
       => /\ ns["backend"] \in Supporting
          /\ \A e \in Supporting :
               devices[ns["backend"]].pending_jobs <= devices[e].pending_jobs

CountOf(reg, cls) == Cardinality({k \in DOMAIN reg : reg[k] = cls})

\* C7: registering the class when it is already registered makes the cell
\* print the error and complete: the run goes on with the next cell, the
\* registry is unchanged, and after the cell the class is registered once
C7_DuplicateRegistrationCaught ==
  [][ /\ (pc = "a825" /\ Registered(registry, EvolutionFidelity) /\ pc' # pc)
           => /\ pc' = "a866"
              /\ failedAt' = ""
              /\ registry' = registry
              /\ ("register_pluggable" \in DOMAIN ns')
                    => stdout' = Append(stdout, [cell |-> "a825",
                                                 out |-> AlreadyRegistered])
      /\ ("register_pluggable" \in DOMAIN ns')
           => CountOf(registry', EvolutionFidelity) = 1 ]_vars

\* the registration failed, was printed, and the notebook ran to its end
C7_Witness ==
  /\ pc = "done"
  /\ Len(stdout) = 3
  /\ stdout[1] = [cell |-> "a825", out |-> AlreadyRegistered]
  /\ CountOf(registry, EvolutionFidelity) = 1

\* C9: the direct run succeeds in every registry state; the declarative run
\* succeeds only if the class is registered, and fails otherwise
C9_DirectAlwaysDeclarativeIfRegistered ==
  /\ failedAt # "a866"
  /\ pc \in {"a898", "a931"} => \E k \in DOMAIN stdout : stdout[k].cell = "a866"
  /\ (\E k \in DOMAIN stdout : stdout[k].cell = "a931")
       => Registered(registry, EvolutionFidelity)
  /\ failedAt = "a931" => ~Registered(registry, EvolutionFidelity)

\* without registration the direct run printed its score and the declarative
\* run failed
C9_Witness ==
  /\ failedAt = "a931"
  /\ \E k \in DOMAIN stdout : stdout[k].cell = "a866"
  /\ ~Registered(registry, EvolutionFidelity)

\* C10: in every measured bitstring the value of qubit j stands n-1-j places
\* from the left (qubit 0 rightmost, qubit 2 leftmost), and the basis state
\* with qubit 0 = 0, qubit 1 = 0, qubit 2 = 1 is labelled 100
C10_Qubit0Rightmost ==
  /\ lastShot.job # 0
       => /\ Len(lastShot.key) = NumQubits
          /\ \A j \in Qubits : lastShot.key[NumQubits - j] = lastShot.qubits[j]
  /\ BasisLabel(IndexOf([j \in Qubits |-> IF j = 2 THEN 1 ELSE 0])) = L100

\* a run in which only qubit 2 was measured as 1
C10_Witness ==
  /\ lastShot.job # 0
  /\ lastShot.qubits = [j \in Qubits |-> IF j = 2 THEN 1 ELSE 0]
  /\ lastShot.key = L100

\* the backend the name backend is bound to, "" while it is unbound
BackendOf(f) == IF "backend" \in DOMAIN f THEN f["backend"] ELSE ""

\* the backends each execute cell of the first notebook is meant to use: the
\* real-device run is meant for a least busy device that supports the program
IntendedBackends(cell) ==
  CASE cell = "c222" -> {"statevector_simulator"}
    [] cell = "c305" -> {"unitary_simulator"}
    [] cell = "c388" -> {"qasm_simulator"}
    [] cell = "c561" -> LeastBusy(Supporting)
    [] cell = "c640" -> {RemoteSimulator}
    [] OTHER -> {}

\* the data each accessor cell reads and the backends that produce it
AccessorCells ==
  [c260 |-> [res |-> "result", field |-> "statevector",
             from |-> {"statevector_simulator"}],
   c309 |-> [res |-> "result", field |-> "unitary",
             from |-> {"unitary_simulator"}],
   c412 |-> [res |-> "result_sim", field |-> "counts",
             from |-> {"qasm_simulator"}],
   c611 |-> [res |-> "result_exp", field |-> "counts", from |-> RealDevices],
   c661 |-> [res |-> "result_hpc", field |-> "counts",
             from |-> {RemoteSimulator}]]

\* C11: run top to bottom, backend is bound at three cells only, to the
\* statevector simulator, then the unitary simulator, then the least busy
\* real device that supports the program; every execute submits to the
\* backend meant for it from the binding of backend it reads; every accessor,
\* the get_counts on the retrieved job included, reads a result of the
\* matching backend that holds the data it asks for, counts coming from
\* measured circuits only; no cell of the notebook stops the run, so that
\* every run reaches the third binding
C11_BackendBindings ==
  [][ /\ BackendOf(ns') # BackendOf(ns)
           => \/ /\ pc = "c200"
                 /\ BackendOf(ns) = ""
                 /\ BackendOf(ns') = "statevector_simulator"
              \/ /\ pc = "c304"
                 /\ BackendOf(ns) = "statevector_simulator"
                 /\ BackendOf(ns') = "unitary_simulator"
              \/ /\ pc = "c535"
                 /\ BackendOf(ns) = "unitary_simulator"
                 /\ BackendOf(ns') \in RealDevices
                 /\ BackendOf(ns') \in LeastBusy(Supporting)
              \/ /\ pc = "a866"
                 /\ BackendOf(ns) = ""
                 /\ BackendOf(ns') = "statevector_simulator"
      /\ (pc = "c535" /\ pc' # pc) => BackendOf(ns') # BackendOf(ns)
      /\ \A j \in DOMAIN jobs' \ DOMAIN jobs :
            /\ jobs'[j].backend \in IntendedBackends(pc)
            /\ pc \in {"c222", "c305", "c561"}
                 => jobs'[j].backend = BackendOf(ns)
      /\ (pc \in DOMAIN AccessorCells /\ pc' # pc)
           => LET a == AccessorCells[pc]
              IN /\ pc' # "failed"
                 /\ ns[a.res].backend \in a.from
                 /\ a.field \in DOMAIN ns[a.res].data
                 /\ a.field = "counts" => HasMeasure(jobs[ns[a.res].job_id].gates)
      /\ (pc = "c705" /\ pc' # pc)
           => /\ pc' = "c721"
              /\ jobs[ns'["job_get"]].backend = BackendOf(ns)
      /\ (pc = "c721" /\ pc' # pc)
           => /\ pc' = "done"
              /\ jobs[ns["job_get"]].backend \in RealDevices
              /\ HasMeasure(jobs[ns["job_get"]].gates)
              /\ "counts" \in DOMAIN ResultOf(ns["job_get"]).data
      /\ failedAt' \in {"", "a931"} ]_vars

====
